---- MODULE Spec2Model ----
(***************************************************************************)
(* Model of src/core/database.py: templated SQL execution                  *)
(* (execute_sql_query), the COPY bulk loader (copy_csv_to_postgres), the   *)
(* schema inspector (table_exists) and the tabular transfer (fetch_table,  *)
(* bulk_insert_dataframe), together with the database they talk to.        *)
(*                                                                         *)
(* Text is a sequence of one-character strings, so that str.replace works  *)
(* on characters as it does in Python.  A SQL statement is two characters: *)
(* a verb and a table name, e.g. <<"S","o">> is SELECT * FROM o.           *)
(***************************************************************************)
EXTENDS Naturals, Sequences, FiniteSets

VARIABLES
    db,          \* committed, visible contents of the database: table -> state
    pc,          \* position of the caller inside the running call
    op,          \* the function being (or last) called
    pre,         \* db as it was when the call started
    ret,         \* what the call handed back to the caller
    template,    \* execute_sql_query: text read from sql_file_path
    identifiers, \* execute_sql_query: the identifiers argument
    sql_text,    \* execute_sql_query: the local sql_text
    params,      \* execute_sql_query: the params argument
    fetch,       \* execute_sql_query: the fetch argument
    sess,        \* execute_sql_query: the engine.begin() session
    work,        \* uncommitted view of db inside the open transaction
    result,      \* execute_sql_query: the statement's result
    execCount,   \* execute_sql_query: statements executed by this call
    target,      \* table_name argument of the table-level functions
    csv,         \* copy_csv_to_postgres: the file at csv_file_path
    copied,      \* copy_csv_to_postgres: data rows streamed so far
    lconn,       \* copy_csv_to_postgres: the psycopg2 connection and cursor
    checked,     \* fetch_table: outcome of its table_exists call
    scanned,     \* fetch_table: the table the SELECT was issued on
    df,          \* bulk_insert_dataframe: rows of the DataFrame
    if_exists,   \* bulk_insert_dataframe: the if_exists argument
    prev,        \* bulk_insert_dataframe: the call before it, if a bulk insert
    last         \* the call that just returned, if a bulk insert

vars == <<db, pc, op, pre, ret, template, identifiers, sql_text, params, fetch,
          sess, work, result, execCount, target, csv, copied, lconn, checked,
          scanned, df, if_exists, prev, last>>

-----------------------------------------------------------------------------
(* Bounds of the model *)

\* largest number of rows a table holds
MaxRows == 4
\* largest number of data rows in a CSV file
MaxCsvRows == 2
\* largest number of rows in a DataFrame
MaxDfRows == 2
\* largest number of segments a template is assembled from
MaxSegments == 3
\* largest number of entries in an Identifier Map
MaxIdentifiers == 2

-----------------------------------------------------------------------------
(* Template Resolver: database.py lines 47-50 *)

\* f"{{{{ {key} }}}}": two braces, a space, the key, a space, two braces
Placeholder(key) == <<"{", "{", " ">> \o key \o <<" ", "}", "}">>

\* Python's str.replace(old, new) for a non-empty old: scan left to right,
\* replace every non-overlapping occurrence, never rescan what was inserted
RECURSIVE Replace(_, _, _)
Replace(s, old, new) ==
    IF Len(s) < Len(old) THEN s
    ELSE IF SubSeq(s, 1, Len(old)) = old
         THEN new \o Replace(SubSeq(s, Len(old) + 1, Len(s)), old, new)
         ELSE <<s[1]>> \o Replace(Tail(s), old, new)

\* for key, value in identifiers.items(): sql_text = sql_text.replace(...)
\* items is the dict in iteration order, a sequence of <<key, value>>
RECURSIVE ReplaceAll(_, _)
ReplaceAll(text, items) ==
    IF items = <<>> THEN text
    ELSE ReplaceAll(Replace(text, Placeholder(items[1][1]), items[1][2]),
                    Tail(items))

\* mutant: placeholders that no key resolved are stripped from the text
RECURSIVE StripPlaceholders(_, _)
StripPlaceholders(text, keys) ==
    IF keys = {} THEN text
    ELSE LET k == CHOOSE x \in keys : TRUE
         IN StripPlaceholders(Replace(text, Placeholder(k), <<>>), keys \ {k})

\* the keys templates and maps are written with
Keys == {<<"a">>, <<"b">>, <<"x">>}

ResolveIdentifiers_strict(text, ids) ==
    StripPlaceholders(
        IF ~ids.none /\ ids.items # <<>> THEN ReplaceAll(text, ids.items) ELSE text,
        Keys \cup {<<"t">>})

\* "if identifiers:" is false for None and for the empty dict
ResolveIdentifiers(text, ids) ==
    IF ~ids.none /\ ids.items # <<>> THEN ReplaceAll(text, ids.items) ELSE text

NoIdentifiers == [none |-> TRUE, items |-> <<>>]
Identifiers(items) == [none |-> FALSE, items |-> items]

-----------------------------------------------------------------------------
(* The database behind the engine and the psycopg2 connection *)

\* table names, one character each so that a name fits a statement
Tables == {"o", "u"}
\* the values a row can hold; NULL violates the tables' not-null constraint
RowVals == {"r1", "r2"}
NULL == "NULL"

Absent == [exists |-> FALSE, rows |-> <<>>]
Table(rows) == [exists |-> TRUE, rows |-> rows]

\* S: SELECT * FROM t            I: INSERT INTO t VALUES (:v)
\* R: INSERT INTO t VALUES (:v) RETURNING *
Verbs == {"S", "I", "R"}

\* what the database parses out of the text it is sent
Interpret(text) ==
    IF Len(text) = 2 /\ text[1] \in Verbs /\ text[2] \in Tables
    THEN [ok |-> TRUE, verb |-> text[1], table |-> text[2]]
    ELSE [ok |-> FALSE, verb |-> "?", table |-> "?"]

NoParams == [none |-> TRUE, has_v |-> FALSE, v |-> NULL]
Params(v) == [none |-> FALSE, has_v |-> TRUE, v |-> v]

\* "params or {}": None binds nothing
BoundParams(p) == IF p.none THEN [none |-> FALSE, has_v |-> FALSE, v |-> NULL] ELSE p

\* conn.execute(text(sql_text), params): the statement run on the view d.
\* A syntax error, an undefined table, an unbound :v or a NULL value raise
\* and leave the view as it was.
Run(d, stmt, p) ==
    LET fail == [error |-> TRUE, view |-> d, returns_rows |-> FALSE, rows |-> <<>>]
    IN  IF ~stmt.ok THEN fail
        ELSE IF ~d[stmt.table].exists THEN fail
        ELSE IF stmt.verb = "S"
             THEN [error |-> FALSE, view |-> d, returns_rows |-> TRUE,
                   rows |-> d[stmt.table].rows]
        ELSE IF ~p.has_v \/ p.v = NULL THEN fail
        ELSE [error |-> FALSE,
              view |-> [d EXCEPT ![stmt.table].rows = Append(@, p.v)],
              returns_rows |-> (stmt.verb = "R"),
              rows |-> IF stmt.verb = "R" THEN <<p.v>> ELSE <<>>]

\* inspector.has_table(table_name, schema=schema)
TableExists(d, t) == d[t].exists

\* mutant: replace keeps the rows the table held
ToSql_keep(d, t, rows, mode) ==
    IF ~d[t].exists THEN [error |-> FALSE, db |-> [d EXCEPT ![t] = Table(rows)]]
    ELSE IF mode = "fail" THEN [error |-> TRUE, db |-> d]
    ELSE [error |-> FALSE, db |-> [d EXCEPT ![t] = Table(d[t].rows \o rows)]]

\* df.to_sql(name, con, schema, if_exists, index=False, method="multi"):
\* the table is created when missing; fail raises on an existing table,
\* replace drops and recreates it, append keeps its rows
ToSql(d, t, rows, mode) ==
    IF ~d[t].exists THEN [error |-> FALSE, db |-> [d EXCEPT ![t] = Table(rows)]]
    ELSE IF mode = "fail" THEN [error |-> TRUE, db |-> d]
    ELSE IF mode = "replace" THEN [error |-> FALSE, db |-> [d EXCEPT ![t] = Table(rows)]]
    ELSE [error |-> FALSE, db |-> [d EXCEPT ![t] = Table(d[t].rows \o rows)]]

\* all sequences over S of length at most n
RECURSIVE SeqsUpTo(_, _)
SeqsUpTo(S, n) ==
    IF n = 0 THEN {<<>>}
    ELSE LET T == SeqsUpTo(S, n - 1) IN T \cup {Append(s, x) : s \in T, x \in S}

-----------------------------------------------------------------------------
(* Inputs the caller draws its arguments from *)

NoFile == [exists |-> FALSE, text |-> <<>>]
File(text) == [exists |-> TRUE, text |-> text]

\* .sql files: each verb on the placeholder {{ t }}, one statement without
\* a placeholder, and a path with no file behind it
SqlFiles ==
    {File(<<v>> \o Placeholder(<<"t">>)) : v \in Verbs} \cup {File(<<"S", "o">>), NoFile}

MainIdentifiers ==
    {NoIdentifiers} \cup {Identifiers(<< <<(<<"t">>), <<n>>>> >>) : n \in Tables}

ParamMaps == {NoParams, Params("r1"), Params(NULL)}

FetchModes == {"None", "one", "all"}

\* CSV files: the data rows under the header, or no file at the path
CsvFiles == {File(r) : r \in SeqsUpTo(RowVals \cup {NULL}, MaxCsvRows)} \cup {NoFile}

\* DataFrames of 0..MaxDfRows rows
DataFrames == SeqsUpTo({"r1"}, MaxDfRows)

IfExists == {"fail", "replace", "append"}

-----------------------------------------------------------------------------
(* Values a call starts from *)

NoSess == [opened |-> 0, state |-> "none", released |-> FALSE]
NoConn == [conn |-> "none", cursor |-> "none", txn |-> "none"]
NoResult == [returns_rows |-> FALSE, rows |-> <<>>]
NoCheck == [done |-> FALSE, table |-> "", exists |-> FALSE]
NoPrev == [valid |-> FALSE, table |-> "", df |-> <<>>, mode |-> "", before |-> 0]

Pending(tag, rows) == [kind |-> "pending", tag |-> tag, rows |-> rows]
Returned(tag, rows) == [kind |-> "return", tag |-> tag, rows |-> rows]
Raised(tag) == [kind |-> "raise", tag |-> tag, rows |-> <<>>]

\* the caller holds control: no call is running
Idle == pc = "idle"

\* the locals of the other functions do not exist during a call
ClearExec ==
    /\ template' = <<>> /\ identifiers' = NoIdentifiers /\ sql_text' = <<>>
    /\ params' = NoParams /\ fetch' = "None" /\ sess' = NoSess
    /\ result' = NoResult /\ execCount' = 0
ClearCopy == csv' = NoFile /\ copied' = 0 /\ lconn' = NoConn
ClearFetch == checked' = NoCheck /\ scanned' = ""
ClearBulk == df' = <<>> /\ if_exists' = "" /\ prev' = NoPrev

execVars == <<template, identifiers, sql_text, params, fetch, sess, result, execCount>>
copyVars == <<csv, copied, lconn>>
fetchVars == <<checked, scanned>>
bulkVars == <<df, if_exists, prev, last>>

InitDb == [Tables -> {Absent, Table(<<>>), Table(<<"r1", "r2">>)}]

Init ==
    /\ db \in InitDb
    /\ pc = "idle" /\ op = "none" /\ pre = db /\ ret = Pending("", <<>>)
    /\ template = <<>> /\ identifiers = NoIdentifiers /\ sql_text = <<>>
    /\ params = NoParams /\ fetch = "None" /\ sess = NoSess
    /\ work = db /\ result = NoResult /\ execCount = 0
    /\ target = "" /\ csv = NoFile /\ copied = 0 /\ lconn = NoConn
    /\ checked = NoCheck /\ scanned = ""
    /\ df = <<>> /\ if_exists = "" /\ prev = NoPrev /\ last = NoPrev

-----------------------------------------------------------------------------
(* execute_sql_query: database.py lines 9-60 *)

\* an INSERT the table has room for (the model's cap on table size)
Fits(d, text) ==
    LET stmt == Interpret(text)
    IN  (stmt.ok /\ stmt.verb \in {"I", "R"} /\ d[stmt.table].exists)
            => Len(d[stmt.table].rows) < MaxRows

\* lines 45-50: read the file, resolve the identifiers.  A missing file
\* raises FileNotFoundError before any session is opened.
Call_execute_sql_query ==
    /\ Idle
    /\ \E file \in SqlFiles, ids \in MainIdentifiers, p \in ParamMaps, f \in FetchModes :
        /\ Fits(db, ResolveIdentifiers(file.text, ids))
        /\ op' = "execute_sql_query" /\ pre' = db
        /\ identifiers' = ids /\ params' = p /\ fetch' = f
        /\ template' = file.text
        /\ sess' = NoSess /\ result' = NoResult /\ execCount' = 0 /\ work' = db
        /\ IF file.exists
           THEN /\ sql_text' = ResolveIdentifiers(file.text, ids)
                /\ pc' = "begin"
                /\ ret' = Pending("", <<>>)
           ELSE /\ sql_text' = <<>>
                /\ pc' = "done"
                /\ ret' = Raised("FileNotFoundError")
    /\ target' = "" /\ ClearCopy /\ ClearFetch /\ ClearBulk
    /\ last' = NoPrev
    /\ UNCHANGED db

\* line 52: with engine.begin() as conn
Begin ==
    /\ pc = "begin"
    /\ sess' = [opened |-> sess.opened + 1, state |-> "open", released |-> FALSE]
    /\ pc' = "execute"
    /\ UNCHANGED <<db, op, pre, ret, template, identifiers, sql_text, params, fetch,
                   work, result, execCount, target, copyVars, fetchVars, bulkVars>>

\* line 53: result = conn.execute(text(sql_text), params or {})
Execute ==
    /\ pc = "execute"
    /\ LET r == Run(db, Interpret(sql_text), BoundParams(params))
       IN  /\ execCount' = execCount + 1
           /\ work' = r.view
           /\ IF r.error
              THEN /\ result' = NoResult
                   /\ ret' = Pending("DatabaseError", <<>>)
                   /\ pc' = "unwind"
              ELSE /\ result' = [returns_rows |-> r.returns_rows, rows |-> r.rows]
                   /\ ret' = ret
                   /\ pc' = "fetch"
    /\ UNCHANGED <<db, op, pre, template, identifiers, sql_text, params, fetch, sess,
                   target, copyVars, fetchVars, bulkVars>>

\* mutant: first() hands back the last row
ReturnValue_last(mode, res) ==
    IF mode = "one"
    THEN IF res.rows = <<>> THEN Pending("None", <<>>)
         ELSE Pending("row", <<res.rows[Len(res.rows)]>>)
    ELSE IF mode = "all" THEN Pending("list", res.rows)
    ELSE Pending("None", <<>>)

\* lines 55-60: the value the call is about to return
\*   "one": result.mappings().first(), None on an empty result set
\*   "all": result.mappings().all()
\*   otherwise the block falls through to "return None"
ReturnValue(mode, res) ==
    IF mode = "one"
    THEN IF res.rows = <<>> THEN Pending("None", <<>>)
         ELSE Pending("row", <<res.rows[1]>>)
    ELSE IF mode = "all" THEN Pending("list", res.rows)
    ELSE Pending("None", <<>>)

\* lines 55-58: result.mappings() on a result that returns no rows (a plain
\* INSERT) raises ResourceClosedError inside the block
Fetch ==
    /\ pc = "fetch"
    /\ IF fetch \in {"one", "all"} /\ ~result.returns_rows
       THEN /\ ret' = Pending("ResourceClosedError", <<>>)
            /\ pc' = "unwind"
       ELSE /\ ret' = ReturnValue(fetch, result)
            /\ pc' = "exit_ok"
    /\ UNCHANGED <<db, op, pre, template, identifiers, sql_text, params, fetch, sess,
                   work, result, execCount, target, copyVars, fetchVars, bulkVars>>

\* the table an open transaction of this caller has written or read
Touched == Interpret(sql_text).table

\* mutant: a return from inside the block leaves without committing
ExitOk_skip ==
    /\ pc = "exit_ok"
    /\ db' = IF fetch = "None" THEN [db EXCEPT ![Touched] = work[Touched]] ELSE db
    /\ work' = db'
    /\ sess' = [sess EXCEPT !.state = IF fetch = "None" THEN "committed" ELSE "open",
                            !.released = TRUE]
    /\ ret' = [ret EXCEPT !.kind = "return"]
    /\ pc' = "done"
    /\ UNCHANGED <<op, pre, template, identifiers, sql_text, params, fetch,
                   result, execCount, target, copyVars, fetchVars, bulkVars>>

\* line 52, leaving the block normally (by return at 56/58 or by falling
\* through to 60): the transaction commits and the connection is released
ExitOk ==
    /\ pc = "exit_ok"
    /\ db' = [db EXCEPT ![Touched] = work[Touched]]
    /\ work' = db'
    /\ sess' = [sess EXCEPT !.state = "committed", !.released = TRUE]
    /\ ret' = [ret EXCEPT !.kind = "return"]
    /\ pc' = "done"
    /\ UNCHANGED <<op, pre, template, identifiers, sql_text, params, fetch,
                   result, execCount, target, copyVars, fetchVars, bulkVars>>

\* mutant: the block commits what ran before the raise
Unwind_commit ==
    /\ pc = "unwind"
    /\ db' = IF Interpret(sql_text).ok THEN [db EXCEPT ![Touched] = work[Touched]] ELSE db
    /\ work' = db'
    /\ sess' = [sess EXCEPT !.state = "committed", !.released = TRUE]
    /\ ret' = [ret EXCEPT !.kind = "raise"]
    /\ pc' = "done"
    /\ UNCHANGED <<op, pre, template, identifiers, sql_text, params, fetch,
                   result, execCount, target, copyVars, fetchVars, bulkVars>>

\* line 52, leaving the block by an exception: the transaction rolls back,
\* the connection is released and the exception goes on to the caller
Unwind ==
    /\ pc = "unwind"
    /\ work' = db
    /\ sess' = [sess EXCEPT !.state = "rolledback", !.released = TRUE]
    /\ ret' = [ret EXCEPT !.kind = "raise"]
    /\ pc' = "done"
    /\ UNCHANGED <<db, op, pre, template, identifiers, sql_text, params, fetch,
                   result, execCount, target, copyVars, fetchVars, bulkVars>>

-----------------------------------------------------------------------------
(* copy_csv_to_postgres: database.py lines 63-107 *)

\* lines 92-95: connect, open a cursor, then open the file.  A missing file
\* raises FileNotFoundError out of the function with both still open.
Call_copy_csv_to_postgres ==
    /\ Idle
    /\ \E file \in CsvFiles, t \in Tables :
        /\ (file.exists /\ db[t].exists) => Len(db[t].rows) + Len(file.text) <= MaxRows
        /\ op' = "copy_csv_to_postgres" /\ pre' = db /\ target' = t
        /\ csv' = file /\ copied' = 0
        /\ lconn' = [conn |-> "open", cursor |-> "open", txn |-> "none"]
        /\ IF file.exists
           THEN pc' = "copy_begin" /\ ret' = Pending("", <<>>)
           ELSE pc' = "done" /\ ret' = Raised("FileNotFoundError")
    /\ work' = db
    /\ ClearExec /\ ClearFetch /\ ClearBulk
    /\ last' = NoPrev
    /\ UNCHANGED db

\* lines 96-103: cursor.copy_expert starts the COPY in a new transaction; an
\* undefined table raises DatabaseError out of the function
CopyBegin ==
    /\ pc = "copy_begin"
    /\ work' = db
    /\ IF TableExists(db, target)
       THEN /\ lconn' = [lconn EXCEPT !.txn = "active"]
            /\ pc' = "copy" /\ ret' = ret
       ELSE /\ lconn' = [lconn EXCEPT !.txn = "aborted"]
            /\ pc' = "done" /\ ret' = Raised("DatabaseError")
    /\ UNCHANGED <<db, op, pre, execVars, target, csv, copied, fetchVars, bulkVars>>

\* lines 96-103: one data row goes into the table; a row the table rejects
\* aborts the transaction and raises DatabaseError out of the function,
\* past lines 105-107
CopyRow ==
    /\ pc = "copy" /\ copied < Len(csv.text)
    /\ LET row == csv.text[copied + 1]
       IN  IF row = NULL
           THEN /\ lconn' = [lconn EXCEPT !.txn = "aborted"]
                /\ pc' = "done" /\ ret' = Raised("DatabaseError")
                /\ UNCHANGED <<work, copied>>
           ELSE /\ work' = [work EXCEPT ![target].rows = Append(@, row)]
                /\ copied' = copied + 1
                /\ UNCHANGED <<lconn, pc, ret>>
    /\ UNCHANGED <<db, op, pre, execVars, target, csv, fetchVars, bulkVars>>

\* lines 105-107: conn.commit(), cursor.close(), conn.close()
CopyFinish ==
    /\ pc = "copy" /\ copied = Len(csv.text)
    /\ db' = [db EXCEPT ![target] = work[target]]
    /\ work' = db'
    /\ lconn' = [conn |-> "closed", cursor |-> "closed", txn |-> "committed"]
    /\ ret' = Returned("None", <<>>)
    /\ pc' = "done"
    /\ UNCHANGED <<op, pre, execVars, target, csv, copied, fetchVars, bulkVars>>

-----------------------------------------------------------------------------
(* table_exists: database.py lines 113-132 *)

Call_table_exists ==
    /\ Idle
    /\ \E t \in Tables :
        /\ op' = "table_exists" /\ pre' = db /\ target' = t
        /\ ret' = Returned(IF TableExists(db, t) THEN "True" ELSE "False", <<>>)
    /\ pc' = "done" /\ work' = db
    /\ ClearExec /\ ClearCopy /\ ClearFetch /\ ClearBulk
    /\ last' = NoPrev
    /\ UNCHANGED db

-----------------------------------------------------------------------------
(* fetch_table: database.py lines 135-162 *)

\* mutant: the scan is issued whatever the check said
Call_fetch_table_unchecked ==
    /\ Idle
    /\ \E t \in Tables :
        /\ op' = "fetch_table" /\ pre' = db /\ target' = t
        /\ checked' = [done |-> TRUE, table |-> t, exists |-> TableExists(db, t)]
        /\ pc' = "scan" /\ ret' = Pending("", <<>>)
    /\ scanned' = "" /\ work' = db
    /\ ClearExec /\ ClearCopy /\ ClearBulk
    /\ last' = NoPrev
    /\ UNCHANGED db

\* lines 158-159: the existence check; ValueError when it says no
Call_fetch_table ==
    /\ Idle
    /\ \E t \in Tables :
        /\ op' = "fetch_table" /\ pre' = db /\ target' = t
        /\ checked' = [done |-> TRUE, table |-> t, exists |-> TableExists(db, t)]
        /\ IF TableExists(db, t)
           THEN pc' = "scan" /\ ret' = Pending("", <<>>)
           ELSE pc' = "done" /\ ret' = Raised("ValueError")
    /\ scanned' = "" /\ work' = db
    /\ ClearExec /\ ClearCopy /\ ClearBulk
    /\ last' = NoPrev
    /\ UNCHANGED db

\* mutant: a table that is gone reads as an empty DataFrame
ReadSql_empty(d, t) ==
    IF d[t].exists THEN Returned("DataFrame", d[t].rows) ELSE Returned("DataFrame", <<>>)

\* line 162: pd.read_sql(query, engine); the SELECT on a table that is gone
\* raises the driver's ProgrammingError
ReadSql(d, t) ==
    IF d[t].exists THEN Returned("DataFrame", d[t].rows) ELSE Raised("ProgrammingError")

\* lines 161-162: the scan, a second round trip to the database
FetchTableScan ==
    /\ pc = "scan"
    /\ scanned' = target
    /\ ret' = ReadSql(db, target)
    /\ pc' = "done"
    /\ UNCHANGED <<db, op, pre, execVars, work, target, copyVars, checked, bulkVars>>

-----------------------------------------------------------------------------
(* bulk_insert_dataframe: database.py lines 165-199 *)

\* line 192: df.to_sql(...).  prev remembers the call before this one when
\* that was a bulk insert which returned.
Call_bulk_insert_dataframe ==
    /\ Idle
    /\ \E rows \in DataFrames, t \in Tables, mode \in IfExists :
        LET r == ToSql(db, t, rows, mode)
        IN  /\ Len(r.db[t].rows) <= MaxRows
            /\ op' = "bulk_insert_dataframe" /\ pre' = db /\ target' = t
            /\ df' = rows /\ if_exists' = mode
            /\ db' = r.db
            /\ ret' = IF r.error THEN Raised("ValueError") ELSE Returned("None", <<>>)
    /\ prev' = last
    /\ pc' = "done" /\ work' = db'
    /\ last' = NoPrev
    /\ ClearExec /\ ClearCopy /\ ClearFetch

-----------------------------------------------------------------------------
(* The end of a call *)

\* the caller has the outcome; the call's arguments and locals are gone.
\* last remembers a bulk insert that returned, for the call that follows.
Return ==
    /\ pc = "done"
    /\ pc' = "idle"
    /\ last' = IF op = "bulk_insert_dataframe" /\ ret.kind = "return"
               THEN [valid |-> TRUE, table |-> target, df |-> df, mode |-> if_exists,
                     before |-> Len(pre[target].rows)]
               ELSE NoPrev
    /\ op' = "none" /\ pre' = db /\ ret' = Pending("", <<>>) /\ work' = db
    /\ target' = ""
    /\ ClearExec /\ ClearCopy /\ ClearFetch /\ ClearBulk
    /\ UNCHANGED db

-----------------------------------------------------------------------------
(* The caller alone *)

Next ==
    \/ Call_execute_sql_query \/ Begin \/ Execute \/ Fetch \/ ExitOk \/ Unwind
    \/ Call_copy_csv_to_postgres \/ CopyBegin \/ CopyRow \/ CopyFinish
    \/ Call_table_exists
    \/ Call_fetch_table \/ FetchTableScan
    \/ Call_bulk_insert_dataframe
    \/ Return

Spec == Init /\ [][Next]_vars

-----------------------------------------------------------------------------
(* The tabular transfer with another client of the same database *)

\* another caller drops a table: the core adds no coordination of its own,
\* so the drop can fall between any two round trips of this caller
OtherDrop ==
    /\ \E t \in Tables :
        /\ db[t].exists
        /\ db' = [db EXCEPT ![t] = Absent]
    /\ UNCHANGED <<pc, op, pre, ret, execVars, work, target, copyVars, fetchVars, bulkVars>>

\* the calls that open no transaction of their own in this module, and the
\* other caller
NextConcurrent ==
    \/ Call_table_exists
    \/ Call_fetch_table \/ FetchTableScan
    \/ Call_bulk_insert_dataframe
    \/ Return
    \/ OtherDrop

SpecConcurrent == Init /\ [][NextConcurrent]_vars

-----------------------------------------------------------------------------
(* The Template Resolver on its own: every template and Identifier Map *)

\* text a template is assembled from: the placeholders, a letter, and an
\* opening "{{ " that belongs to no placeholder
Segments == {Placeholder(k) : k \in Keys} \cup {<<"v">>, <<"{", "{", " ">>}

RECURSIVE TemplatesUpTo(_)
TemplatesUpTo(n) ==
    IF n = 0 THEN {<<>>}
    ELSE LET T == TemplatesUpTo(n - 1) IN T \cup {t \o g : t \in T, g \in Segments}

\* replacement values: a plain name, or text that is itself a placeholder
Values == {<<"v">>} \cup {Placeholder(k) : k \in Keys}

\* a dict in iteration order: no key twice
RECURSIVE ItemsUpTo(_)
ItemsUpTo(n) ==
    IF n = 0 THEN {<<>>}
    ELSE LET I == ItemsUpTo(n - 1)
         IN  I \cup {Append(items, <<k, v>>) :
                        items \in {i \in I : Len(i) = n - 1},
                        k \in Keys, v \in Values}

DistinctKeys(items) ==
    \A i, j \in 1..Len(items) : i # j => items[i][1] # items[j][1]

IdentifierMaps ==
    {NoIdentifiers} \cup
    {Identifiers(items) : items \in {i \in ItemsUpTo(MaxIdentifiers) : DistinctKeys(i)}}

InitResolve ==
    /\ db = [t \in Tables |-> Absent]
    /\ pc = "resolve" /\ op = "none" /\ pre = db /\ ret = Pending("", <<>>)
    /\ template \in TemplatesUpTo(MaxSegments)
    /\ identifiers \in IdentifierMaps
    /\ sql_text = <<>>
    /\ params = NoParams /\ fetch = "None" /\ sess = NoSess
    /\ work = db /\ result = NoResult /\ execCount = 0
    /\ target = "" /\ csv = NoFile /\ copied = 0 /\ lconn = NoConn
    /\ checked = NoCheck /\ scanned = ""
    /\ df = <<>> /\ if_exists = "" /\ prev = NoPrev /\ last = NoPrev

\* lines 47-50 applied to the template
Resolve ==
    /\ pc = "resolve"
    /\ sql_text' = ResolveIdentifiers(template, identifiers)
    /\ pc' = "resolved"
    /\ UNCHANGED <<db, op, pre, ret, template, identifiers, params, fetch, sess, work,
                   result, execCount, target, copyVars, fetchVars, bulkVars>>

SpecResolve == InitResolve /\ [][Resolve]_vars

-----------------------------------------------------------------------------
(* Properties *)

ExecDone == op = "execute_sql_query" /\ pc = "done"
CopyDone == op = "copy_csv_to_postgres" /\ pc = "done"
FetchTableDone == op = "fetch_table" /\ pc = "done"
BulkDone == op = "bulk_insert_dataframe" /\ pc = "done"

\* C1: a call of execute_sql_query that reaches the session block opens
\* exactly one session (a call whose template file is missing opens none);
\* inside the block the session is open; a normal return leaves it committed
\* and released; a raise from the block leaves it rolled back and released
\* with the database as it was before the call.
C1_SessionScoped ==
    op = "execute_sql_query" =>
        /\ sess.opened <= 1
        /\ pc \in {"execute", "fetch", "exit_ok", "unwind"} =>
              sess = [opened |-> 1, state |-> "open", released |-> FALSE]
        /\ (pc = "done" /\ ret.kind = "return") =>
              sess = [opened |-> 1, state |-> "committed", released |-> TRUE]
        /\ (pc = "done" /\ ret.kind = "raise" /\ ret.tag # "FileNotFoundError") =>
              /\ sess = [opened |-> 1, state |-> "rolledback", released |-> TRUE]
              /\ db = pre
        /\ (pc = "done" /\ ret.tag = "FileNotFoundError") => sess = NoSess

\* an INSERT ran, the fetch raised, and the call ended rolled back
C1_Witness ==
    /\ ExecDone /\ ret = Raised("ResourceClosedError")
    /\ Interpret(sql_text).verb = "I" /\ execCount = 1
    /\ sess.state = "rolledback" /\ sess.released

C3_CopySessionClosed ==
    CopyDone => lconn.conn = "closed" /\ lconn.cursor = "closed"

\* one pass over the template: at each position the placeholder of a key of
\* the map is replaced by its value and the scan goes on behind it
RECURSIVE SinglePass(_, _)
SinglePass(text, items) ==
    IF text = <<>> THEN <<>>
    ELSE LET hits == {i \in 1..Len(items) :
                        /\ Len(Placeholder(items[i][1])) <= Len(text)
                        /\ SubSeq(text, 1, Len(Placeholder(items[i][1])))
                               = Placeholder(items[i][1])}
         IN  IF hits = {} THEN <<text[1]>> \o SinglePass(Tail(text), items)
             ELSE LET i == CHOOSE h \in hits : TRUE
                  IN  items[i][2] \o
                      SinglePass(SubSeq(text, Len(Placeholder(items[i][1])) + 1,
                                        Len(text)), items)

\* C4: resolution is a single pass: the resolved text is the template with
\* each placeholder replaced once, and text a value brought in is never
\* scanned again, whatever the order of the map.
C4_SinglePass ==
    pc = "resolved" => sql_text = SinglePass(template, identifiers.items)

\* the keys of Keys the map does not hold
AbsentKeys(ids) == Keys \ {ids.items[i][1] : i \in 1..Len(ids.items)}

StartsWith(text, p) == Len(p) <= Len(text) /\ SubSeq(text, 1, Len(p)) = p

Contains(text, p) == \E i \in 1..Len(text) : StartsWith(SubSeq(text, i, Len(text)), p)

\* the template cut at the placeholders of absent keys: the text between
\* them is resolved, the placeholders themselves stay where they are
RECURSIVE KeepAbsent(_, _, _)
KeepAbsent(before, rest, ids) ==
    IF rest = <<>> THEN ResolveIdentifiers(before, ids)
    ELSE LET hits == {k \in AbsentKeys(ids) : StartsWith(rest, Placeholder(k))}
         IN  IF hits = {}
             THEN KeepAbsent(Append(before, rest[1]), Tail(rest), ids)
             ELSE LET k == CHOOSE h \in hits : TRUE
                  IN  ResolveIdentifiers(before, ids) \o Placeholder(k) \o
                      KeepAbsent(<<>>, SubSeq(rest, Len(Placeholder(k)) + 1, Len(rest)), ids)

\* C5: every placeholder of the template whose key is absent from the map
\* stands unchanged, at its place, in the resolved text; with the map None
\* or empty, or with no placeholder in the template, the resolved text is
\* the template.
C5_AbsentKeysKept ==
    pc = "resolved" =>
        /\ sql_text = KeepAbsent(<<>>, template, identifiers)
        /\ (identifiers.none \/ identifiers.items = <<>>) => sql_text = template
        /\ (\A k \in Keys : ~Contains(template, Placeholder(k))) => sql_text = template

\* a template with the placeholder of an absent key next to one the map
\* resolves
C5_Witness ==
    /\ pc = "resolved"
    /\ \E k \in AbsentKeys(identifiers) : Contains(template, Placeholder(k))
    /\ sql_text # template

\* the rows the statement of the call produces on the database as it was
ResultSet ==
    IF Interpret(sql_text).verb = "S" THEN pre[Touched].rows ELSE <<params.v>>

\* C6: with fetch None the call returns None; with "one" it returns the
\* first row of the result set, or None, without raising, when the result
\* set is empty; with "all" it returns every row, in order.
C6_ReturnByFetchMode ==
    ExecDone =>
        /\ (fetch = "None" /\ ret.kind = "return") => ret = Returned("None", <<>>)
        /\ (fetch = "one" /\ result.returns_rows) =>
              ret = IF ResultSet = <<>> THEN Returned("None", <<>>)
                    ELSE Returned("row", <<ResultSet[1]>>)
        /\ (fetch = "all" /\ result.returns_rows) =>
              /\ ret = Returned("list", ResultSet)
              /\ Len(ret.rows) = Len(ResultSet)

\* fetch "one" on a result set of several different rows
C6_Witness ==
    /\ ExecDone /\ fetch = "one" /\ ret.kind = "return"
    /\ Len(ResultSet) >= 2 /\ ResultSet[1] # ResultSet[Len(ResultSet)]

\* C7: the SELECT of fetch_table is issued only after the existence check
\* of the same table said yes in this call; when the check says no the call
\* raises ValueError and issues no scan.
C7_CheckBeforeScan ==
    /\ scanned # "" =>
          /\ op = "fetch_table"
          /\ checked.done /\ checked.exists /\ checked.table = scanned
    /\ (FetchTableDone /\ ~checked.exists) =>
          ret = Raised("ValueError") /\ scanned = ""

\* fetch_table ended on a table that does not exist
C7_Witness ==
    FetchTableDone /\ checked.done /\ ~checked.exists /\ ret = Raised("ValueError")

\* this call and the one before it were the same bulk insert, and both returned
SameTwice ==
    /\ BulkDone /\ ret.kind = "return"
    /\ prev.valid /\ prev.table = target /\ prev.df = df /\ prev.mode = if_exists

\* C8: the same N-row bulk insert run twice in sequence: with append the
\* table has 2N more rows than before the first call, with replace it has
\* exactly N rows.
C8_TwiceAppendReplace ==
    SameTwice =>
        /\ if_exists = "append" => Len(db[target].rows) = prev.before + 2 * Len(df)
        /\ if_exists = "replace" => Len(db[target].rows) = Len(df)

\* a two-row DataFrame appended twice
C8_Witness ==
    SameTwice /\ if_exists = "append" /\ Len(df) = 2

\* C9: under every fetch mode a call that returns has executed the
\* statement exactly once and committed it: the database is what the
\* statement makes of the database as it was, whatever the fetch mode.
C9_FetchModeFrame ==
    (ExecDone /\ ret.kind = "return") =>
        /\ execCount = 1
        /\ sess.state = "committed"
        /\ db = Run(pre, Interpret(sql_text), BoundParams(params)).view

\* an INSERT ... RETURNING returned from inside the block and is committed
C9_Witness ==
    /\ ExecDone /\ ret.kind = "return" /\ fetch = "one"
    /\ Interpret(sql_text).verb = "R" /\ db # pre

\* C10 as stated: with a concurrent drop, fetch_table ends with ValueError
\* or with the complete contents of the table, nothing else.
C10_TwoOutcomes ==
    FetchTableDone =>
        \/ ret = Raised("ValueError")
        \/ pre[target].exists /\ ret = Returned("DataFrame", pre[target].rows)

\* C10 amended: the check and the scan are two steps; fetch_table ends with
\* ValueError (the table was missing at the check), with the complete
\* contents of the table, or with the driver's ProgrammingError when the
\* table was dropped between the check and the scan.
C10_ThreeOutcomes ==
    FetchTableDone =>
        \/ ret = Raised("ValueError") /\ ~pre[target].exists /\ scanned = ""
        \/ pre[target].exists /\ ret = Returned("DataFrame", pre[target].rows)
        \/ /\ ret = Raised("ProgrammingError")
           /\ pre[target].exists /\ ~db[target].exists

\* the table was dropped between the check and the scan
C10_Witness ==
    FetchTableDone /\ ret = Raised("ProgrammingError") /\ checked.exists

====
